---- MODULE Spec2Model ----
(***************************************************************************)
(* ISS tracker: the publishing side and the page that follows it.          *)
(*                                                                         *)
(* The oracle service (oracle/index.ts: main, syncISS) and the cron route  *)
(* (app/api/cron/sync-iss/route.ts: GET, POST) both run publish cycles     *)
(* against one ledger partition (ISS_SCHEMA_ID, PUBLISHER_ADDRESS):        *)
(*   count query -> feed fetch -> encode -> setAndEmitEvents.              *)
(* Every await of a cycle is one step of the model, so that cycles that    *)
(* are in flight at the same time interleave at their awaits.              *)
(***************************************************************************)
EXTENDS Integers, Sequences, FiniteSets, TLC

\* ---------------------------------------------------------------- bounds
MaxCycles == 3          \* publish cycles (timer ticks + cron requests) started
MaxFeedTime == 2        \* the feed clock runs from 1 to MaxFeedTime (seconds)
MaxSetups == 2          \* setupSubscription() calls of one mounted hook
MaxFetches == 2         \* fetchInitialLocations() calls of one mounted hook
MaxFaults == 1          \* transport faults (signalled errors and silent drops)
MAX_TRAIL_LENGTH == 2   \* const MAX_TRAIL_LENGTH = 100, scaled down
HistoryWindow == 2      \* the 100n of fetchInitialLocations, scaled down
MaxOverlap == 5         \* records in the ledger when a catch-up meets pushes

\* ------------------------------------------------------------- constants
NoValue == -1           \* a count query that resolved without a value (null)
Int32Max == 2147483647
Int32Min == -2147483647 - 1
MicroDegrees == 1000000 \* fixed-point scale of the coordinates
ISS_ALTITUDE == 408000
ISS_ACCURACY == 1000
ISS_VELOCITY == 27600
SlotSize == 32          \* bytes of one ABI slot
RecordSize == 288       \* the nine slots encodeAbiParameters writes

Cycles == 1..MaxCycles
Subs == 1..MaxSetups
Fetches == 1..MaxFetches

\* latitudes the feed may report, in whole degrees; the second one does not
\* fit the int32 slot once scaled, so encodeAbiParameters throws on it
FeedLatitudes == {51, 3000}

VARIABLES
    records,            \* the ledger partition: sequence of [id, data]
    events,             \* number of ISSPositionUpdated notifications emitted
    writes,             \* number of data-stream writes the store has accepted
    feedTime,           \* the feed's clock (seconds), what iss-now.json reports
    mainPc,             \* oracle process: "start", "firstSync", "interval", "stopped"
    firstCycle,         \* the cycle main() awaits before installing the timer
    sessionPublished,   \* successful syncs logged by the running process
    nextCycle,          \* next unused cycle identity
    undisturbed,        \* history: every cycle so far ran alone, got a count
                        \* from the ledger and wrote under a fresh key
    cyc,                \* per cycle: position in syncISS / GET and its locals
    variant,            \* which useISSLocations is mounted: "push" (hooks/
                        \* useISSLocations.ts), "full" (with history fetch), "none"
    mounted,            \* the hook's effect is active (its cleanup has not run)
    initTimer,          \* the full hook's setTimeout(..., 100) is pending
    subscription,       \* the effect's local: the handle subscribe() returned, 0 if none
    isSubscribed,       \* the effect's local flag
    currentLocations,   \* the Trail Cache (locationsRef.current / currentLocations)
    setup,              \* per setupSubscription() call: its position, and the
                        \* store-side subscription it created
    nextSetup,          \* next unused setupSubscription() identity
    fetch,              \* per fetchInitialLocations() call: position and locals
    nextFetch,          \* next unused fetchInitialLocations() identity
    timers,             \* pending reconnect timeouts (3 s / 5 s)
    chan,               \* per subscription: notifications on their way to onData
    faults,             \* transport faults so far
    trigger             \* the run of scripts/test-oracle.ts: its position, the
                        \* response it got and what it left behind

hook == <<variant, mounted, initTimer, subscription, isSubscribed,
          currentLocations, setup, nextSetup, fetch, nextFetch, timers,
          chan, faults>>

vars == <<records, events, writes, feedTime, mainPc, firstCycle,
          sessionPublished, nextCycle, undisturbed, cyc, hook, trigger>>

ledger == <<records, events, writes>>
process == <<mainPc, firstCycle>>
publisher == <<feedTime, process, sessionPublished, undisturbed, cyc, trigger>>

\* ------------------------------------------------------------ pure code

\* toHex(issData.timestamp, { size: 32 }): the value left-padded to 32 bytes
toHex(value, size) == [size |-> size, value |-> value]

\* a sequence kept in process memory instead of the count that was read
NextNonceInMemory(totalPublished) == sessionPublished

\* const nonce = totalPublished || BigInt(0)
NextNonce(totalPublished) ==
    IF totalPublished = NoValue \/ totalPublished = 0 THEN 0 ELSE totalPublished

\* the status check without the check of the sentinel
FeedOkStatusOnly(response) == response.ok

\* if (!response.ok) throw ...; if (issData.message !== 'success') throw ...
FeedOk(response) == response.ok /\ response.message = "success"

\* encodeAbiParameters rejects a value outside the slot of its type:
\* Math.round(parseFloat(latitude) * 1_000_000) has to fit an int32
\* (the bound is compared in whole degrees to stay within 32-bit arithmetic)
Encodable(issData) ==
    /\ issData.latitude >= -(Int32Max \div MicroDegrees)
    /\ issData.latitude <= Int32Max \div MicroDegrees

\* encodeISSLocation(apiData, nonce): the byte string, as its length and the
\* values in its slots
encodeISSLocation(apiData, nonce) ==
    [ size      |-> RecordSize,
      timestamp |-> apiData.timestamp * 1000,
      latitude  |-> apiData.latitude * MicroDegrees,
      altitude  |-> ISS_ALTITUDE,
      accuracy  |-> ISS_ACCURACY,
      nonce     |-> nonce,
      velocity  |-> ISS_VELOCITY ]

\* ------------------------------------------------------------ the ledger

\* index of the record stored under id, 0 when there is none
KeyIndex(id) ==
    IF \E i \in 1..Len(records) : records[i].id = id
    THEN CHOOSE i \in 1..Len(records) : records[i].id = id
    ELSE 0

\* what the store does with a write under id: a fresh key is appended; on a
\* key that is already there the store either rejects the write or lets the
\* last write win (implementation-defined)
StoreWrite(id, data, onCollision) ==
    IF KeyIndex(id) = 0
    THEN Append(records, [id |-> id, data |-> data])
    ELSE IF onCollision = "lww"
         THEN [records EXCEPT ![KeyIndex(id)] = [id |-> id, data |-> data]]
         ELSE records

StoreAccepts(id, onCollision) == KeyIndex(id) = 0 \/ onCollision = "lww"

\* sdk.streams.setAndEmitEvents([{id, schemaId, data}], [{id: 'ISSPositionUpdated'}])
\* the record and the notification land in one transaction
setAndEmitEvents(id, data, onCollision) ==
    /\ records' = StoreWrite(id, data, onCollision)
    /\ writes' = writes + 1
    /\ events' = events + 1

\* step 4 issued as a bare write, sdk.streams.set([{id, schemaId, data}]):
\* the record lands without a notification
PublisherWriteBare(id, data, onCollision) ==
    /\ records' = StoreWrite(id, data, onCollision)
    /\ writes' = writes + 1
    /\ events' = events

\* the write the publisher issues in step 4 of a cycle
PublisherWrite(id, data, onCollision) == setAndEmitEvents(id, data, onCollision)

\* ------------------------------------------------------------ the cycles

NoCycle ==
    [ pc |-> "none", kind |-> "none", totalPublished |-> NoValue,
      nonce |-> 0, timestamp |-> 0, latitude |-> 0,
      feedError |-> FALSE, attempts |-> 0, result |-> "none" ]

InFlight(c) == cyc[c].pc \notin {"none", "done", "killed"}

\* no cycle is in flight
Alone == \A c \in Cycles : ~InFlight(c)

\* a cycle that has just been entered: syncISS() called / GET past its auth check
Entered(kind) == [NoCycle EXCEPT !.pc = "count", !.kind = kind]

\* a catch block that goes back to the append after a failed append
CatchBlockRetry(c, failure) ==
    IF failure = "append_failed"
    THEN cyc[c]
    ELSE [NoCycle EXCEPT !.pc = "done", !.result = failure,
                         !.feedError = cyc[c].feedError,
                         !.attempts = cyc[c].attempts]

\* a catch block that rethrows: the cycle's promise rejects, it never returns
CatchBlockRethrow(c, failure) ==
    [cyc[c] EXCEPT !.pc = "thrown", !.result = failure]

\* } catch (error) { console.error(...) }  -- the cycle returns, nothing is
\* retried; of a returned cycle only its outcome is kept, its frame is gone
CatchBlock(c, failure) ==
    [NoCycle EXCEPT !.pc = "done", !.result = failure,
                    !.feedError = cyc[c].feedError,
                    !.attempts = cyc[c].attempts]

\* the end of the try block: the cycle returns with a success
Returned(cycle) ==
    [NoCycle EXCEPT !.pc = "done", !.result = "ok",
                    !.feedError = cycle.feedError,
                    !.attempts = cycle.attempts]

\* a setupSubscription() call that has not been made.  History kept with the
\* subscription it creates: since, the number of records the ledger held
\* when it went live; count, how many records its onData has handed to
\* onNewLocation; last, the sequence of the latest of them
NoSetup == [pc |-> "none", since |-> 0, count |-> 0, last |-> NoValue]

\* a fetchInitialLocations() call that has not been made
NoFetch == [pc |-> "none", purpose |-> "none", total |-> 0]

\* test-oracle.ts has not been run.  Of a run: cycle, the GET cycle that
\* serves its request; status, nonce, timestamp, message, the response
\* (data.nonce, data.position.timestamp, data.message); printed, the branch
\* of main() that wrote to the console; exit, the exit code of the process.
\* History kept with it: assigned, the sequence encoded into the record
NoTrigger ==
    [ pc |-> "none", cycle |-> 0, status |-> 0, nonce |-> NoValue,
      timestamp |-> 0, message |-> "none", printed |-> "none",
      exit |-> NoValue, assigned |-> NoValue, authorization |-> "none" ]

\* the publishing side before anything ran
PublisherInit ==
    /\ trigger = NoTrigger
    /\ records = <<>>
    /\ events = 0
    /\ writes = 0
    /\ feedTime = 1
    /\ mainPc = "start"
    /\ firstCycle = 0
    /\ sessionPublished = 0
    /\ nextCycle = 1
    /\ undisturbed = TRUE
    /\ cyc = [c \in Cycles |-> NoCycle]

\* no page is open: no hook is mounted
Init ==
    /\ PublisherInit
    /\ variant = "none"
    /\ mounted = FALSE
    /\ initTimer = FALSE
    /\ subscription = 0
    /\ isSubscribed = FALSE
    /\ currentLocations = <<>>
    /\ setup = [s \in Subs |-> NoSetup]
    /\ nextSetup = 1
    /\ fetch = [f \in Fetches |-> NoFetch]
    /\ nextFetch = 1
    /\ timers = 0
    /\ chan = [s \in Subs |-> <<>>]
    /\ faults = 0

\* Step 1: const totalPublished = await sdk.streams.totalPublisherDataForSchema(...)
CountStep(c) ==
    /\ UNCHANGED hook
    /\ cyc[c].pc = "count"
    /\ \E outcome \in {"value", "null", "throw"} :
         /\ cyc' = [cyc EXCEPT ![c] =
            CASE outcome = "value" ->
                   [@ EXCEPT !.pc = "fetch",
                             !.totalPublished = Len(records),
                             !.nonce = NextNonce(Len(records))]
              [] outcome = "null" ->
                   [@ EXCEPT !.pc = "fetch",
                             !.totalPublished = NoValue,
                             !.nonce = NextNonce(NoValue)]
              [] OTHER -> CatchBlock(c, "count_failed")]
         /\ undisturbed' = (undisturbed /\ outcome # "null")
    /\ UNCHANGED <<ledger, feedTime, process, sessionPublished, nextCycle>>

\* what fetch(OPEN_NOTIFY_URL) / response.json() may produce: a rejected call
\* ("thrown"), a non-OK status, a non-success sentinel, or an observation
FeedResponses ==
    { [thrown |-> TRUE,  ok |-> FALSE, message |-> "error",   latitude |-> 0],
      [thrown |-> FALSE, ok |-> FALSE, message |-> "success", latitude |-> 0],
      [thrown |-> FALSE, ok |-> TRUE,  message |-> "error",   latitude |-> 0] }
    \cup { [thrown |-> FALSE, ok |-> TRUE, message |-> "success", latitude |-> l] :
             l \in FeedLatitudes }

\* a FeedError: the call rejected, a non-200 status, or a non-success sentinel
FeedError(response) ==
    response.thrown \/ ~response.ok \/ response.message # "success"

\* Steps 2 and 3: fetch(OPEN_NOTIFY_URL), response.json(), encodeISSLocation
FetchStep(c) ==
    /\ UNCHANGED hook
    /\ cyc[c].pc = "fetch"
    /\ \E response \in FeedResponses :
         LET issData == [timestamp |-> feedTime, latitude |-> response.latitude]
             fetched == [cyc[c] EXCEPT !.feedError = FeedError(response)]
         IN  cyc' = [cyc EXCEPT ![c] =
                IF response.thrown \/ ~FeedOk(response)
                THEN [CatchBlock(c, "feed_failed") EXCEPT
                         !.feedError = FeedError(response)]
                ELSE IF ~Encodable(issData)
                THEN CatchBlock(c, "encode_failed")
                ELSE [fetched EXCEPT !.pc = "publish",
                                     !.timestamp = issData.timestamp,
                                     !.latitude = issData.latitude]]
    /\ UNCHANGED <<ledger, feedTime, process, sessionPublished, nextCycle,
                   undisturbed>>

\* Step 4: const txHash = await sdk.streams.setAndEmitEvents(...);
\*         if (!txHash) throw ...; the success log / response
PublishStep(c) ==
    /\ UNCHANGED hook
    /\ cyc[c].pc = "publish"
    /\ LET issData == [timestamp |-> cyc[c].timestamp, latitude |-> cyc[c].latitude]
           encodedData == encodeISSLocation(issData, cyc[c].nonce)
           locationId == toHex(issData.timestamp, 32)
           attempted == [cyc[c] EXCEPT !.attempts = @ + 1]
       IN  \E txHash \in BOOLEAN, onCollision \in {"lww", "reject"} :
             IF txHash /\ StoreAccepts(locationId, onCollision)
             THEN /\ PublisherWrite(locationId, encodedData, onCollision)
                  /\ cyc' = [cyc EXCEPT ![c] = Returned(attempted)]
                  /\ sessionPublished' =
                        IF cyc[c].kind = "oracle" THEN sessionPublished + 1
                        ELSE sessionPublished
             ELSE /\ cyc' = [cyc EXCEPT ![c] =
                        [CatchBlock(c, "append_failed") EXCEPT !.attempts = @ + 1]]
                  /\ UNCHANGED <<ledger, sessionPublished>>
    /\ undisturbed' =
          (undisturbed /\ KeyIndex(toHex(cyc[c].timestamp, 32)) = 0)
    /\ UNCHANGED <<feedTime, process, nextCycle>>

CycleStep(c) == CountStep(c) \/ FetchStep(c) \/ PublishStep(c)

\* async function syncISS(): the steps of a cycle of the oracle service
syncISS(c) == cyc[c].kind = "oracle" /\ CycleStep(c) /\ UNCHANGED trigger

\* the responses of GET, as they reach a script that is waiting for cycle c:
\*   return NextResponse.json({ success: true, txHash,
\*            nonce: (currentNonce + BigInt(1)).toString(), position: {...} })
\*   return NextResponse.json({ error: 'Sync failed', message: err.message },
\*                            { status: 500 })
Respond(c) ==
    IF trigger.pc = "waiting" /\ trigger.cycle = c /\ cyc'[c].pc = "done"
    THEN IF cyc'[c].result = "ok"
         THEN [trigger EXCEPT !.pc = "responded", !.status = 200,
                              !.nonce = cyc[c].nonce + 1,
                              !.timestamp = cyc[c].timestamp,
                              !.assigned = cyc[c].nonce]
         ELSE [trigger EXCEPT !.pc = "responded", !.status = 500,
                              !.message = cyc'[c].result]
    ELSE trigger

\* export async function GET(request): the steps of a cycle of the cron route
GET(c) == cyc[c].kind = "cron" /\ CycleStep(c) /\ trigger' = Respond(c)

\* GET's synchronous prefix: the CRON_SECRET check, then the cycle is entered.
\* The request is the one of test-oracle.ts when the script has one under
\* way, of the cron scheduler otherwise; a request without an Authorization
\* header has authHeader null, which is no `Bearer ${cronSecret}`;
\*   return NextResponse.json({ error: 'Unauthorized' }, { status: 401 })
GET_Request ==
    /\ UNCHANGED hook
    /\ nextCycle <= MaxCycles
    /\ \E cronSecret \in BOOLEAN, bearerMatches \in BOOLEAN :
         /\ (trigger.pc = "requesting" /\ trigger.authorization = "none")
               => ~bearerMatches
         /\ cyc' = [cyc EXCEPT ![nextCycle] =
            IF cronSecret /\ ~bearerMatches
            THEN [NoCycle EXCEPT !.pc = "done", !.result = "unauthorized"]
            ELSE Entered("cron")]
         /\ undisturbed' = (undisturbed /\ (Alone \/ (cronSecret /\ ~bearerMatches)))
         /\ trigger' =
               IF trigger.pc # "requesting" THEN trigger
               ELSE IF cronSecret /\ ~bearerMatches
               THEN [trigger EXCEPT !.pc = "responded", !.status = 401,
                                    !.cycle = nextCycle]
               ELSE [trigger EXCEPT !.pc = "waiting", !.cycle = nextCycle]
    /\ nextCycle' = nextCycle + 1
    /\ UNCHANGED <<ledger, feedTime, process, sessionPublished>>

\* main(): console.log('Running first sync...'); await syncISS()
Main_FirstSync ==
    /\ UNCHANGED <<hook, trigger>>
    /\ mainPc = "start"
    /\ nextCycle <= MaxCycles
    /\ cyc' = [cyc EXCEPT ![nextCycle] = Entered("oracle")]
    /\ firstCycle' = nextCycle
    /\ nextCycle' = nextCycle + 1
    /\ mainPc' = "firstSync"
    /\ undisturbed' = (undisturbed /\ Alone)
    /\ UNCHANGED <<ledger, feedTime, sessionPublished>>

\* main(): the first sync has returned; setInterval(async () => { await syncISS() }, INTERVAL)
Main_SetInterval ==
    /\ UNCHANGED <<hook, trigger>>
    /\ mainPc = "firstSync"
    /\ cyc[firstCycle].pc = "done"
    /\ mainPc' = "interval"
    /\ UNCHANGED <<ledger, feedTime, firstCycle, sessionPublished,
                   nextCycle, undisturbed, cyc>>

\* the interval timer fires: the callback calls syncISS(), whatever the
\* earlier callbacks are doing
TimerTick ==
    /\ UNCHANGED <<hook, trigger>>
    /\ mainPc = "interval"
    /\ nextCycle <= MaxCycles
    /\ cyc' = [cyc EXCEPT ![nextCycle] = Entered("oracle")]
    /\ nextCycle' = nextCycle + 1
    /\ undisturbed' = (undisturbed /\ Alone)
    /\ UNCHANGED <<ledger, feedTime, process, sessionPublished>>

\* process.on('SIGTERM' / 'SIGINT', () => process.exit(0)), or a crash of the host:
\* the cycles of the process that are in flight are gone with it
Stop ==
    /\ UNCHANGED <<hook, trigger>>
    /\ mainPc # "stopped"
    /\ mainPc' = "stopped"
    /\ cyc' = [c \in Cycles |->
                 IF cyc[c].kind = "oracle" /\ InFlight(c)
                 THEN [NoCycle EXCEPT !.pc = "killed",
                                      !.result = "killed",
                                      !.attempts = cyc[c].attempts]
                 ELSE cyc[c]]
    /\ sessionPublished' = 0
    /\ UNCHANGED <<ledger, feedTime, firstCycle, nextCycle, undisturbed>>

\* the service is launched again: main() runs from the top
Start ==
    /\ UNCHANGED <<hook, trigger>>
    /\ mainPc = "stopped"
    /\ mainPc' = "start"
    /\ UNCHANGED <<ledger, feedTime, firstCycle, sessionPublished, nextCycle,
                   undisturbed, cyc>>

\* the upstream feed's clock moves on by a second
FeedAdvance ==
    /\ UNCHANGED <<hook, trigger>>
    /\ feedTime < MaxFeedTime
    /\ feedTime' = feedTime + 1
    /\ UNCHANGED <<ledger, process, sessionPublished, nextCycle, undisturbed, cyc>>

Next ==
    \/ Main_FirstSync
    \/ Main_SetInterval
    \/ TimerTick
    \/ GET_Request
    \/ \E c \in Cycles : syncISS(c)
    \/ \E c \in Cycles : GET(c)
    \/ Stop
    \/ Start
    \/ FeedAdvance

Spec == Init /\ [][Next]_vars

\* test-oracle.ts, main(): const response = await fetch(url, { headers })
\* is issued by a run of the script, with
\*   headers: cronSecret ? { 'Authorization': `Bearer ${cronSecret}` } : {}
\* where cronSecret is the CRON_SECRET of the script's own environment
main_Fetch ==
    /\ trigger.pc \in {"none", "exited"}
    /\ nextCycle <= MaxCycles
    /\ \E cronSecret \in BOOLEAN :
         trigger' = [NoTrigger EXCEPT !.pc = "requesting",
                                      !.authorization = IF cronSecret
                                                        THEN "bearer"
                                                        ELSE "none"]
    /\ UNCHANGED <<hook, ledger, feedTime, process, sessionPublished, nextCycle,
                   undisturbed, cyc>>

\* main(): the rest of the run.  Either fetch() rejects (no server is
\* listening) and the catch block prints 'Request Failed!', or the response
\* is there and the script prints 'Oracle Success!' with data.nonce
\* (response.ok) or 'Oracle Failed!' with data.error and data.message.  main()
\* returns in every branch, nothing sets an exit code, the process ends with 0
main_Print ==
    /\ \/ /\ trigger.pc = "requesting"
          /\ trigger' = [trigger EXCEPT !.pc = "exited",
                                        !.printed = "Request Failed!",
                                        !.message = "fetch failed",
                                        !.exit = 0]
       \/ /\ trigger.pc = "responded"
          /\ trigger' = [trigger EXCEPT !.pc = "exited",
                                        !.printed = IF trigger.status = 200
                                                    THEN "Oracle Success!"
                                                    ELSE "Oracle Failed!",
                                        !.exit = 0]
    /\ UNCHANGED <<hook, ledger, feedTime, process, sessionPublished, nextCycle,
                   undisturbed, cyc>>

\* runs of the script against the cron route, which the scheduler calls too
TriggerNext ==
    \/ main_Fetch
    \/ main_Print
    \/ GET_Request
    \/ \E c \in Cycles : GET(c)
    \/ FeedAdvance

TriggerSpec == Init /\ [][TriggerNext]_vars

\* the oracle service on its own (no cron route deployed), with every network
\* call of a cycle settling eventually
OracleNext ==
    \/ Main_FirstSync
    \/ Main_SetInterval
    \/ TimerTick
    \/ \E c \in Cycles : syncISS(c)
    \/ Stop
    \/ Start
    \/ FeedAdvance

LiveSpec ==
    /\ Init
    /\ [][OracleNext]_vars
    /\ \A c \in Cycles : WF_vars(syncISS(c))

\* ------------------------------------------------------------ the claims

\* the cycles of the oracle service that are in flight
OracleCycles == {c \in Cycles : cyc[c].kind = "oracle"}
Succeeded == {c \in Cycles : cyc[c].result = "ok"}
Failures == {"count_failed", "feed_failed", "encode_failed", "append_failed"}

\* C1: the record at index i carries sequence i (the sequence written equals
\* the ledger count at the time of the append; no gaps, no repeats), for
\* every schedule of the cycles
C1_SequenceEqualsIndex ==
    \A i \in 1..Len(records) : records[i].data.nonce = i - 1

\* C2: at most one publish cycle of the oracle service is in flight
C2_TicksSerialized ==
    Cardinality({c \in OracleCycles : InFlight(c)}) <= 1

C4_FailedFetchPublishesNothing ==
    /\ \A c \in Cycles :
          cyc[c].feedError => cyc[c].attempts = 0 /\ cyc[c].result # "ok"
    /\ writes = Cardinality(Succeeded)
    /\ events = Cardinality(Succeeded)
    /\ undisturbed =>
          /\ Len(records) = Cardinality(Succeeded)
          /\ \A i \in 1..Len(records) : records[i].data.nonce = i - 1

\* a failed fetch between two successes: sequences 0 and 1 around the gap
C4_Witness ==
    /\ undisturbed
    /\ MaxCycles >= 3
    /\ cyc[1].result = "ok"
    /\ cyc[2].result = "feed_failed"
    /\ cyc[3].result = "ok"
    /\ Len(records) = 2
    /\ records[2].data.nonce = 1

C6_CycleReturnsToIdle ==
    /\ \A c \in Cycles : InFlight(c) ~> ~InFlight(c)
    /\ [][\A c \in Cycles :
             (InFlight(c) /\ cyc'[c].result \in Failures)
             => (~InFlight(c)' /\ mainPc' = mainPc)]_vars

\* a cycle has failed and a cycle started after it has published
C6_Witness ==
    \E c, d \in Cycles :
        /\ c < d
        /\ cyc[c].result \in Failures
        /\ cyc[d].result = "ok"
        /\ mainPc = "interval"

\* C7: a cycle whose count query yielded no value appends nothing, and a
\* cycle takes sequence 0 only from a ledger that holds no record
C7_NoCountNoPublish ==
    [][\A c \in Cycles :
          /\ (cyc[c].pc = "publish" /\ cyc'[c].result = "ok")
                => cyc[c].totalPublished # NoValue
          /\ (cyc[c].pc = "count" /\ cyc'[c].pc = "fetch" /\ cyc'[c].nonce = 0)
                => Len(records) = 0]_vars

\* C8: a cycle makes at most one append attempt
C8_OneAttemptPerTick ==
    \A c \in Cycles : cyc[c].attempts <= 1

\* an append has failed, its cycle has returned after that one attempt, and
\* the next attempt was made by a later cycle
C8_Witness ==
    \E c, d \in Cycles :
        /\ c < d
        /\ cyc[c].result = "append_failed" /\ cyc[c].attempts = 1
        /\ cyc[c].pc = "done"
        /\ cyc[d].attempts = 1

\* C9: an append is made under a key that no record of the ledger has
C9_AppendKeyIsFresh ==
    [][\A c \in Cycles :
          (cyc[c].pc = "publish" /\ cyc'[c].attempts = cyc[c].attempts + 1)
          => \A i \in 1..Len(records) :
                 records[i].id # toHex(cyc[c].timestamp, 32)]_vars

\* C10: no step changes or removes a record that is in the ledger, and the
\* count never decreases
C10_RecordsImmutable ==
    [][/\ Len(records') >= Len(records)
       /\ \A i \in 1..Len(records) : records'[i] = records[i]]_vars

(***************************************************************************)
(* The consuming side: the useISSLocations hook of a page.                 *)
(*                                                                         *)
(* Two hooks of that name are in the repository: the push-only one         *)
(* (hooks/useISSLocations.ts: the trail is built from notifications only)  *)
(* and the full one (history fetch at mount, after an error and when the   *)
(* tab becomes visible again).  JavaScript runs a handler to completion,   *)
(* so a handler is one step; an async function is one step per await.      *)
(***************************************************************************)

\* ------------------------------------------------------------ pure code

\* decodeISSLocation(data): the fields the hook looks at
decodeISSLocation(data) ==
    [ timestamp |-> data.timestamp,
      latitude  |-> data.latitude \div MicroDegrees,
      nonce     |-> data.nonce ]

\* decodeAbiParameters(params, data) reads the nine slots from the front of
\* data: it throws when data ends before the last of them and does not look
\* at what follows it
Decodes(data) == data.size >= RecordSize

\* a membership test that never finds anything
HasNonceNever(locations, nonce) == FALSE

\* locations.some(l => l.nonce === nonce)
HasNonce(locations, nonce) ==
    \E i \in 1..Len(locations) : locations[i].nonce = nonce

\* locations.slice(-n)
SliceLast(locations, n) ==
    IF Len(locations) <= n THEN locations
    ELSE SubSeq(locations, Len(locations) - n + 1, Len(locations))

\* the push-only hook, onData:
\*   locationsRef.current = [...locationsRef.current, location].slice(-MAX_TRAIL_LENGTH)
AppendBounded(locations, location) ==
    SliceLast(Append(locations, location), MAX_TRAIL_LENGTH)

\* the full hook, onData: currentLocations = [...currentLocations, location]
AppendUnbounded(locations, location) == Append(locations, location)

\* the append of the mounted hook
TrailAppend(locations, location) ==
    IF variant = "push" THEN AppendBounded(locations, location)
    ELSE AppendUnbounded(locations, location)

\* ------------------------------------------------- the store's push channel

\* a notification on its way to a subscriber; the store bundles the result of
\* the subscription's ethCalls into it, one result per call, once it has
\* evaluated them
Notification == [pending |-> TRUE, simulationResults |-> <<>>]

Live(s) == setup[s].pc = "live"

\* getLastPublishedDataForSchema(schemaId, publisher), evaluated by the store
getLastPublishedDataForSchema == records[Len(records)].data

\* the store emits ISSPositionUpdated: every live subscription gets a notification
Notify(ch) ==
    [s \in Subs |-> IF Live(s) THEN Append(ch[s], Notification) ELSE ch[s]]

\* position of the first notification of s whose ethCalls are not evaluated yet
FirstPending(s) ==
    CHOOSE i \in 1..Len(chan[s]) :
        /\ chan[s][i].pending
        /\ \A j \in 1..(i - 1) : ~chan[s][j].pending

\* the store evaluates the ethCalls of a notification: ethCalls has one entry,
\* the latest-record read, evaluated against the ledger as it is now
EvaluateEthCalls(s) ==
    /\ Live(s)
    /\ \E i \in 1..Len(chan[s]) : chan[s][i].pending
    /\ chan' = [chan EXCEPT ![s][FirstPending(s)] =
                  [pending |-> FALSE,
                   simulationResults |-> <<getLastPublishedDataForSchema>>]]
    /\ UNCHANGED <<ledger, publisher, nextCycle>>
    /\ UNCHANGED <<variant, mounted, initTimer, subscription, isSubscribed,
                   currentLocations, setup, nextSetup, fetch, nextFetch,
                   timers, faults>>

\* ----------------------------------------------------------- the handlers

\* the record a handler fetches for itself once it is notified
LatestRead(msg) == getLastPublishedDataForSchema

\* const lastPublishedData = decodeFunctionResult({ ..., data: simulationResults[0] })
BundledRead(msg) == msg.simulationResults[1]

\* the full hook: if (!isSubscribed) return
Ignoring == variant = "full" /\ ~isSubscribed

\* onData: (data) => { try { ... } catch (error) { console.error(...) } } of
\* subscription s, run on its next notification
onData(s) ==
    /\ Live(s)
    /\ chan[s] # <<>>
    /\ ~Head(chan[s]).pending
    /\ chan' = [chan EXCEPT ![s] = Tail(@)]
    /\ LET msg == Head(chan[s])
           location == decodeISSLocation(BundledRead(msg))
       IN  IF \/ msg.simulationResults = <<>>
              \/ Ignoring
              \/ ~Decodes(BundledRead(msg))
              \/ HasNonce(currentLocations, location.nonce)
           THEN UNCHANGED <<currentLocations, setup>>
           ELSE /\ currentLocations' = TrailAppend(currentLocations, location)
                /\ setup' = [setup EXCEPT ![s].count = @ + 1,
                                          ![s].last = location.nonce]
    /\ UNCHANGED <<ledger, publisher, nextCycle>>
    /\ UNCHANGED <<variant, mounted, initTimer, subscription, isSubscribed,
                   nextSetup, fetch, nextFetch, timers, faults>>

\* setupSubscription() is called: the call runs up to its first await
CallSetup(st) == [st EXCEPT ![nextSetup] = [NoSetup EXCEPT !.pc = "info"]]

\* fetchInitialLocations() is called: the call runs up to its first await
CallFetch(purpose) ==
    [fetch EXCEPT ![nextFetch] = [NoFetch EXCEPT !.pc = "count",
                                                 !.purpose = purpose]]

\* a catch block that logs the failed attempt and leaves it at that
SetupFailedNoRetry(s) ==
    /\ setup' = [setup EXCEPT ![s] = [NoSetup EXCEPT !.pc = "failed"]]
    /\ UNCHANGED <<subscription, isSubscribed, chan, timers>>

\* setupSubscription's catch block: setTimeout(() => { ... }, 5000)
SetupFailed(s) ==
    /\ setup' = [setup EXCEPT ![s] = [NoSetup EXCEPT !.pc = "failed"]]
    /\ timers' = timers + 1
    /\ UNCHANGED <<subscription, isSubscribed, chan>>

\* const protocolInfo = await sdk.streams.getSomniaDataStreamsProtocolInfo()
\* if (!protocolInfo || protocolInfo instanceof Error) throw ...
SetupInfo(s) ==
    /\ setup[s].pc = "info"
    /\ \E ok \in BOOLEAN :
         IF ok
         THEN /\ setup' = [setup EXCEPT ![s].pc = "subscribe"]
              /\ UNCHANGED <<subscription, isSubscribed, chan, timers>>
         ELSE SetupFailed(s)
    /\ UNCHANGED <<ledger, publisher, nextCycle>>
    /\ UNCHANGED <<variant, mounted, initTimer, currentLocations, nextSetup,
                   fetch, nextFetch, faults>>

\* const sub = await sdk.streams.subscribe({...}); subscription = sub; isSubscribed = true
SetupSubscribe(s) ==
    /\ setup[s].pc = "subscribe"
    /\ \E ok \in BOOLEAN :
         IF ok
         THEN /\ setup' = [setup EXCEPT ![s].pc = "live", ![s].since = Len(records)]
              /\ subscription' = s
              /\ isSubscribed' = TRUE
              /\ UNCHANGED <<chan, timers>>
         ELSE SetupFailed(s)
    /\ UNCHANGED <<ledger, publisher, nextCycle>>
    /\ UNCHANGED <<variant, mounted, initTimer, currentLocations, nextSetup,
                   fetch, nextFetch, faults>>

\* a reconnect timeout fires: if (!isSubscribed) setupSubscription()
ReconnectTimer ==
    /\ timers > 0
    /\ timers' = timers - 1
    /\ IF isSubscribed
       THEN UNCHANGED <<setup, nextSetup>>
       ELSE /\ nextSetup <= MaxSetups
            /\ setup' = CallSetup(setup)
            /\ nextSetup' = nextSetup + 1
    /\ UNCHANGED <<ledger, publisher, nextCycle>>
    /\ UNCHANGED <<variant, mounted, initTimer, subscription, isSubscribed,
                   currentLocations, fetch, nextFetch, chan, faults>>

\* onError: (error) => { isSubscribed = false; ... } of subscription s, whose
\* transport has failed; the subscription is gone, with what was on its way.
\* The push-only hook arms the 3 s timeout at once; the full hook first calls
\* fetchInitialLocations() and arms the timeout in its finally
onError(s) ==
    /\ Live(s)
    /\ faults < MaxFaults
    /\ faults' = faults + 1
    /\ setup' = [setup EXCEPT ![s].pc = "errored"]
    /\ chan' = [chan EXCEPT ![s] = <<>>]
    /\ isSubscribed' = FALSE
    /\ IF variant = "push"
       THEN /\ timers' = timers + 1
            /\ UNCHANGED <<fetch, nextFetch>>
       ELSE /\ nextFetch <= MaxFetches
            /\ fetch' = CallFetch("error")
            /\ nextFetch' = nextFetch + 1
            /\ UNCHANGED timers
    /\ UNCHANGED <<ledger, publisher, nextCycle>>
    /\ UNCHANGED <<variant, mounted, initTimer, subscription, currentLocations,
                   nextSetup>>

\* ------------------------------------------------------ the history fetch

\* .sort((a, b) => a.timestamp - b.timestamp): a stable sort
RECURSIVE SortByTimestamp(_)
SortByTimestamp(locations) ==
    IF Len(locations) <= 1 THEN locations
    ELSE LET sorted == SortByTimestamp(SubSeq(locations, 1, Len(locations) - 1))
             last == locations[Len(locations)]
             before == SelectSeq(sorted, LAMBDA l : l.timestamp <= last.timestamp)
             after == SelectSeq(sorted, LAMBDA l : l.timestamp > last.timestamp)
         IN  before \o <<last>> \o after

\* loc.latitude !== 0 && loc.longitude !== 0 && loc.timestamp > 0
ValidLocation(loc) == loc.latitude # 0 /\ loc.timestamp > 0

\* const startIndex = total > 100n ? total - 100n : 0n
StartIndex(total) == IF total > HistoryWindow THEN total - HistoryWindow ELSE 0

\* for (let i = startIndex; i < total; i++) { try { getAtIndex(i) ... } catch {} }
\* the reads in failed threw or came back empty and are skipped
RECURSIVE ReadRange(_, _, _)
ReadRange(i, total, failed) ==
    IF i >= total THEN <<>>
    ELSE (IF i \in failed THEN <<>>
          ELSE <<decodeISSLocation(records[i + 1].data)>>)
         \o ReadRange(i + 1, total, failed)

\* what fetchInitialLocations() resolves to once its reads are through
FetchedLocations(total, failed) ==
    SortByTimestamp(SelectSeq(ReadRange(StartIndex(total), total, failed),
                              ValidLocation))

\* handlers that add what was fetched to what the cache holds
FetchSettledMerging(f, locations) ==
    /\ fetch' = [fetch EXCEPT ![f] = [NoFetch EXCEPT !.pc = "done"]]
    /\ currentLocations' = currentLocations \o locations
    /\ timers' = IF fetch[f].purpose = "error" THEN timers + 1 ELSE timers
    /\ IF \/ fetch[f].purpose = "init"
          \/ fetch[f].purpose = "visible" /\ ~isSubscribed
       THEN /\ nextSetup <= MaxSetups
            /\ setup' = CallSetup(setup)
            /\ nextSetup' = nextSetup + 1
       ELSE UNCHANGED <<setup, nextSetup>>

\* handlers that assign whatever was fetched, an empty list too
FetchSettledAlways(f, locations) ==
    /\ fetch' = [fetch EXCEPT ![f] = [NoFetch EXCEPT !.pc = "done"]]
    /\ currentLocations' = locations
    /\ timers' = IF fetch[f].purpose = "error" THEN timers + 1 ELSE timers
    /\ IF \/ fetch[f].purpose = "init"
          \/ fetch[f].purpose = "visible" /\ ~isSubscribed
       THEN /\ nextSetup <= MaxSetups
            /\ setup' = CallSetup(setup)
            /\ nextSetup' = nextSetup + 1
       ELSE UNCHANGED <<setup, nextSetup>>

\* the promise of fetchInitialLocations() call f resolves with locations; its
\* caller's then / finally handlers run:
\*   at mount:    currentLocations = locations; setupSubscription()
\*   in onError:  if (locations.length > 0) currentLocations = locations
\*                finally: setTimeout(() => { if (!isSubscribed) ... }, 3000)
\*   on visible:  if (locations.length > 0) currentLocations = locations
\*                if (!isSubscribed) setupSubscription()
FetchSettled(f, locations) ==
    /\ fetch' = [fetch EXCEPT ![f] = [NoFetch EXCEPT !.pc = "done"]]
    /\ currentLocations' =
          IF fetch[f].purpose = "init" \/ Len(locations) > 0
          THEN locations ELSE currentLocations
    /\ timers' = IF fetch[f].purpose = "error" THEN timers + 1 ELSE timers
    /\ IF \/ fetch[f].purpose = "init"
          \/ fetch[f].purpose = "visible" /\ ~isSubscribed
       THEN /\ nextSetup <= MaxSetups
            /\ setup' = CallSetup(setup)
            /\ nextSetup' = nextSetup + 1
       ELSE UNCHANGED <<setup, nextSetup>>

\* const total = await sdk.streams.totalPublisherDataForSchema(...)
\* if (!total || total === BigInt(0)) return []; a rejected call returns [] too
FetchCount(f) ==
    /\ fetch[f].pc = "count"
    /\ \E answered \in BOOLEAN :
         IF answered /\ Len(records) > 0
         THEN /\ fetch' = [fetch EXCEPT ![f].pc = "read",
                                        ![f].total = Len(records)]
              /\ UNCHANGED <<currentLocations, timers, setup, nextSetup>>
         ELSE FetchSettled(f, <<>>)
    /\ UNCHANGED <<ledger, publisher, nextCycle>>
    /\ UNCHANGED <<variant, mounted, initTimer, subscription, isSubscribed,
                   nextFetch, chan, faults>>

\* the getAtIndex loop, the filter and the sort; then the promise resolves
FetchRead(f) ==
    /\ fetch[f].pc = "read"
    /\ \E failed \in SUBSET (StartIndex(fetch[f].total)..(fetch[f].total - 1)) :
         FetchSettled(f, FetchedLocations(fetch[f].total, failed))
    /\ UNCHANGED <<ledger, publisher, nextCycle>>
    /\ UNCHANGED <<variant, mounted, initTimer, subscription, isSubscribed,
                   nextFetch, chan, faults>>

\* async function fetchInitialLocations(): the steps of call f
fetchInitialLocations(f) == FetchCount(f) \/ FetchRead(f)

\* the full hook's setTimeout(() => { fetchInitialLocations().then(...) }, 100)
InitialLoad ==
    /\ initTimer
    /\ nextFetch <= MaxFetches
    /\ initTimer' = FALSE
    /\ fetch' = CallFetch("init")
    /\ nextFetch' = nextFetch + 1
    /\ UNCHANGED <<ledger, publisher, nextCycle>>
    /\ UNCHANGED <<variant, mounted, subscription, isSubscribed,
                   currentLocations, setup, nextSetup, timers, chan, faults>>

\* ------------------------------------------------- the page and its tab

\* the tab was in the background and comes back to the foreground; while it
\* was suspended the transport of the subscriptions in dropped went away
\* without an error being signalled to the page.  The full hook has a listener:
\*   handleVisibilityChange: if (document.visibilityState === 'visible')
\*       fetchInitialLocations().then(...)
\* (removed by its cleanup); the push-only hook has none
TabResumed ==
    /\ \E dropped \in SUBSET {s \in Subs : Live(s)} :
         /\ faults + Cardinality(dropped) <= MaxFaults
         /\ faults' = faults + Cardinality(dropped)
         /\ setup' = [s \in Subs |->
                        IF s \in dropped THEN [setup[s] EXCEPT !.pc = "dropped"]
                        ELSE setup[s]]
         /\ chan' = [s \in Subs |-> IF s \in dropped THEN <<>> ELSE chan[s]]
    /\ IF variant = "full" /\ mounted
       THEN /\ nextFetch <= MaxFetches
            /\ fetch' = CallFetch("visible")
            /\ nextFetch' = nextFetch + 1
       ELSE UNCHANGED <<fetch, nextFetch>>
    /\ UNCHANGED <<ledger, publisher, nextCycle>>
    /\ UNCHANGED <<variant, mounted, initTimer, subscription, isSubscribed,
                   currentLocations, nextSetup, timers>>

\* subscription.unsubscribe(): the store drops the subscription the handle
\* stands for; on a handle that is closed already nothing happens
unsubscribe(s) ==
    /\ setup' = [setup EXCEPT ![s].pc = IF Live(s) THEN "closed" ELSE @]
    /\ chan' = [chan EXCEPT ![s] = <<>>]

\* the effect's cleanup, run when the component unmounts:
\*   push-only: if (subscription) { subscription.unsubscribe() }
\*   full:      removeEventListener; if (subscription) { unsubscribe(); isSubscribed = false }
Cleanup ==
    /\ mounted
    /\ mounted' = FALSE
    /\ IF subscription # 0
       THEN /\ unsubscribe(subscription)
            /\ isSubscribed' = IF variant = "full" THEN FALSE ELSE isSubscribed
       ELSE UNCHANGED <<setup, chan, isSubscribed>>
    /\ UNCHANGED <<ledger, publisher, nextCycle>>
    /\ UNCHANGED <<variant, initTimer, subscription, currentLocations,
                   nextSetup, fetch, nextFetch, timers, faults>>

\* ------------------------------------------- the publisher, seen from a page

\* a whole publish cycle of the publisher (syncISS / GET) that gets through:
\* it read the count when the ledger held totalPublished records (or got no
\* count) and its setAndEmitEvents lands now; the cycles that ran meanwhile
\* are the ones that made the ledger grow since.  The feed's clock is taken
\* to tick once per cycle: the cycle fetched the observation of its own
\* second, or still that of the second before, and the feed reported one of
\* latitudes
PublishCycleAt(latitudes) ==
    /\ nextCycle <= MaxCycles
    /\ nextCycle' = nextCycle + 1
    /\ \E totalPublished \in (0..Len(records)) \cup {NoValue},
          timestamp \in {nextCycle - 1, nextCycle} \ {0},
          latitude \in latitudes,
          onCollision \in {"lww", "reject"} :
         LET issData == [timestamp |-> timestamp, latitude |-> latitude]
             encodedData == encodeISSLocation(issData, NextNonce(totalPublished))
             locationId == toHex(issData.timestamp, 32)
         IN  /\ Encodable(issData)
             /\ StoreAccepts(locationId, onCollision)
             /\ PublisherWrite(locationId, encodedData, onCollision)
             /\ chan' = IF events' > events THEN Notify(chan) ELSE chan
    /\ UNCHANGED publisher
    /\ UNCHANGED <<variant, mounted, initTimer, subscription, isSubscribed,
                   currentLocations, setup, nextSetup, fetch, nextFetch,
                   timers, faults>>

\* the same with the station at 51 degrees north
PublishCycle == PublishCycleAt({51})

\* what a feed can report as latitude, in whole degrees: values of the globe,
\* values beyond the poles, a value that does not fit the int32 slot
WideLatitudes == {-95, -90, 0, 51, 90, 95, 3000}

\* the publisher on a feed that reports any of them; no page is open
RangeNext == PublishCycleAt(WideLatitudes)

RangeSpec == Init /\ [][RangeNext]_vars

\* ---------------------------------------------------- the page's behaviour

\* the component has mounted and its effect has run: the push-only hook has
\* called setupSubscription(), the full hook has armed its 100 ms timeout
Mounted ==
    /\ variant \in {"push", "full"}
    /\ mounted = TRUE
    /\ initTimer = (variant = "full")
    /\ subscription = 0
    /\ isSubscribed = FALSE
    /\ currentLocations = <<>>
    /\ setup = [s \in Subs |->
                  IF variant = "push" /\ s = 1
                  THEN [NoSetup EXCEPT !.pc = "info"] ELSE NoSetup]
    /\ nextSetup = IF variant = "push" THEN 2 ELSE 1
    /\ fetch = [f \in Fetches |-> NoFetch]
    /\ nextFetch = 1
    /\ timers = 0
    /\ chan = [s \in Subs |-> <<>>]
    /\ faults = 0

\* a page is opened before the publisher has published anything
HookInit == PublisherInit /\ Mounted

\* async function setupSubscription(): the steps of call s
setupSubscription(s) == SetupInfo(s) \/ SetupSubscribe(s)

HookNext ==
    \/ PublishCycle
    \/ \E s \in Subs : EvaluateEthCalls(s)
    \/ \E s \in Subs : onData(s)
    \/ \E s \in Subs : onError(s)
    \/ \E s \in Subs : setupSubscription(s)
    \/ ReconnectTimer
    \/ InitialLoad
    \/ \E f \in Fetches : fetchInitialLocations(f)
    \/ TabResumed
    \/ Cleanup

HookSpec == HookInit /\ [][HookNext]_vars

\* the publisher has run Len(latitudes) cycles one after the other, a second
\* apart (sequences 0, 1, ...), on a feed that reported these latitudes, and
\* is not running
PassedLedger(latitudes) ==
    LET n == Len(latitudes)
    IN  /\ records = [i \in 1..n |->
                        [id |-> toHex(i, 32),
                         data |-> encodeISSLocation(
                                    [timestamp |-> i, latitude |-> latitudes[i]],
                                    NextNonce(i - 1))]]
        /\ events = n
        /\ writes = n
        /\ nextCycle = n + 1
        /\ cyc = [c \in Cycles |-> IF c <= n THEN Returned(NoCycle) ELSE NoCycle]
        /\ feedTime = 1
        /\ mainPc = "stopped"
        /\ firstCycle = 0
        /\ sessionPublished = 0
        /\ undisturbed = TRUE
        /\ trigger = NoTrigger

\* the same with the station at 51 degrees north throughout
QuietLedger(n) == PassedLedger([i \in 1..n |-> 51])

\* a page is opened on a ledger the publisher has left
QuietInit == (\E n \in 0..MaxCycles : QuietLedger(n)) /\ Mounted

\* the connection handling of a page that stays mounted and in the foreground
ReconnectNext ==
    \/ \E s \in Subs : onError(s)
    \/ \E s \in Subs : setupSubscription(s)
    \/ ReconnectTimer
    \/ InitialLoad
    \/ \E f \in Fetches : fetchInitialLocations(f)

\* its timeouts fire and the promises it awaits settle
HookLiveSpec ==
    /\ QuietInit
    /\ [][ReconnectNext]_vars
    /\ WF_vars(ReconnectTimer)
    /\ WF_vars(InitialLoad)
    /\ \A s \in Subs : WF_vars(setupSubscription(s))
    /\ \A f \in Fetches : WF_vars(fetchInitialLocations(f))

\* latitudes of a pass over the equator, in whole degrees as the feed has them
EquatorLatitudes == {0, 51}

\* a page is opened on a ledger written during such a pass
FetchInit ==
    /\ \E n \in 0..MaxCycles :
         \E latitudes \in [1..n -> EquatorLatitudes] : PassedLedger(latitudes)
    /\ Mounted

\* the page loads its history and keeps its subscription up
FetchSpec == FetchInit /\ [][ReconnectNext]_vars

\* a catch-up meets pushes: the full hook has just loaded the records with
\* sequences a..b from the ledger (its history fetch read them all), it is
\* subscribed, and the notifications of the records c..d, evaluated by the
\* store one by one as they were appended, are waiting on its subscription
OverlapInit ==
    \E a, b, c, d \in 0..(MaxOverlap - 1) :
        /\ a <= b /\ a <= c /\ c <= b + 1 /\ b <= d
        /\ QuietLedger(d + 1)
        /\ variant = "full"
        /\ mounted = TRUE
        /\ initTimer = FALSE
        /\ subscription = 1
        /\ isSubscribed = TRUE
        /\ currentLocations =
              SortByTimestamp(SelectSeq(ReadRange(a, b + 1, {}), ValidLocation))
        /\ setup = [s \in Subs |->
                      IF s = 1 THEN [NoSetup EXCEPT !.pc = "live", !.since = c]
                      ELSE NoSetup]
        /\ nextSetup = 2
        /\ fetch = [f \in Fetches |->
                      IF f = 1 THEN [NoFetch EXCEPT !.pc = "done"] ELSE NoFetch]
        /\ nextFetch = 2
        /\ timers = 0
        /\ chan = [s \in Subs |->
                     IF s = 1
                     THEN [i \in 1..(d - c + 1) |->
                             [pending |-> FALSE,
                              simulationResults |-> <<records[c + i].data>>]]
                     ELSE <<>>]
        /\ faults = 0

\* the waiting notifications are handled one after the other
OverlapNext == \E s \in Subs : onData(s)

OverlapSpec == OverlapInit /\ [][OverlapNext]_vars

\* lengths of the byte strings handed to the decoder: a slot short, the
\* record's, a slot long
ByteSizes == {RecordSize - SlotSize, RecordSize, RecordSize + SlotSize}

\* a subscribed page with an empty cache; on its subscription wait the
\* notifications of the n records of the ledger, whose bundled results have
\* reached it with these lengths
DecodeInit ==
    /\ \E n \in 1..MaxCycles :
         /\ QuietLedger(n)
         /\ \E sizes \in [1..n -> ByteSizes] :
              chan = [s \in Subs |->
                        IF s = 1
                        THEN [i \in 1..n |->
                                [pending |-> FALSE,
                                 simulationResults |->
                                    <<[records[i].data EXCEPT !.size = sizes[i]]>>]]
                        ELSE <<>>]
    /\ variant \in {"push", "full"}
    /\ mounted = TRUE
    /\ initTimer = FALSE
    /\ subscription = 1
    /\ isSubscribed = TRUE
    /\ currentLocations = <<>>
    /\ setup = [s \in Subs |->
                  IF s = 1 THEN [NoSetup EXCEPT !.pc = "live"] ELSE NoSetup]
    /\ nextSetup = 2
    /\ fetch = [f \in Fetches |-> NoFetch]
    /\ nextFetch = 1
    /\ timers = 0
    /\ faults = 0

\* the waiting notifications are handled one after the other
DecodeNext == \E s \in Subs : onData(s)

DecodeSpec == DecodeInit /\ [][DecodeNext]_vars

\* ------------------------------------------------- the claims on the page

C12_OneDeliveryPerNotification ==
    [][\A s \in Subs :
         onData(s) =>
           /\ setup'[s].count = setup[s].count + 1
           /\ setup'[s].last > setup[s].last]_vars

\* C13: once a connection has handed on all it was notified of, it has handed
\* on as many records as were appended since it went live (each one once)
C13_EveryAppendPushedOnce ==
    \A s \in Subs :
        Live(s) /\ chan[s] = <<>>
           => setup[s].count = Len(records) - setup[s].since

\* the fetchInitialLocations() calls made for purpose that settle in this step
Settling(purpose) ==
    {f \in Fetches : fetch[f].purpose = purpose /\ fetch[f].pc \in {"count", "read"}
                     /\ fetch'[f].pc = "done"}

\* the records of the last-HistoryWindow window of the ledger
InWindow == {i \in 1..Len(records) : i > Len(records) - HistoryWindow}

\* a subscription of the page is live or on its way (being set up, or due to
\* be set up by a reconnect timeout)
Connecting ==
    \/ \E s \in Subs : setup[s].pc \in {"info", "subscribe", "live"}
    \/ timers > 0

\* C14: a transport error makes the page call the history fetch, and once
\* that fetch has settled the Trail Cache holds the records of the ledger's
\* last-100 window (those appended while the page was disconnected among them)
C14_CatchUpAfterError ==
    [][/\ \A s \in Subs :
            onError(s) => nextFetch' = nextFetch + 1
       /\ Settling("error") # {} =>
            \A i \in InWindow : HasNonce(currentLocations', records[i].data.nonce)]_vars

\* C15: the tab coming back to the foreground makes the mounted page call the
\* history fetch, and once that fetch has settled a subscription is live or on
\* its way, whatever happened to the transport while the tab was suspended
C15_CatchUpOnVisible ==
    [][/\ (TabResumed /\ mounted) => nextFetch' = nextFetch + 1
       /\ (Settling("visible") # {} /\ mounted) => Connecting']_vars

\* every setupSubscription() call the bounds allow has been made and has failed
Exhausted ==
    /\ nextSetup > MaxSetups
    /\ \A s \in Subs : setup[s].pc \notin {"info", "subscribe"}

\* C16: a page that is not subscribed (its subscription failed with onError,
\* or its subscribe attempt failed) is subscribed again later, unless every
\* attempt it makes fails: each error and each failed attempt arms the next one
C16_EventuallyResubscribed ==
    ~isSubscribed ~> (isSubscribed \/ Exhausted)

\* the page is subscribed again after a transport error
C16_Witness ==
    /\ isSubscribed
    /\ \E s \in Subs : Live(s)
    /\ \E s \in Subs : setup[s].pc = "errored"

\* C17: once the cleanup has run, no onData and no onError is handled any
\* more: no subscription of the page hands a record to the Trail Cache and
\* to onNewLocation, and no onError runs
C17_NothingAfterCleanup ==
    [][~mounted =>
         \A s \in Subs :
            /\ setup'[s].count = setup[s].count
            /\ ~onError(s)]_vars

\* no two entries of locations carry the same sequence
NoDuplicates(locations) ==
    \A i, j \in 1..Len(locations) :
        locations[i].nonce = locations[j].nonce => i = j

\* C18: a notification onData handles leaves the Trail Cache alone and hands
\* nothing on when the record's sequence is in the cache already, and puts
\* the record at the end otherwise; and the cache never holds two records
\* with the same sequence
C18_NoDuplicateSequence ==
    /\ [][\A s \in Subs :
            onData(s) /\ Head(chan[s]).simulationResults # <<>> /\ ~Ignoring =>
              LET location == decodeISSLocation(Head(chan[s]).simulationResults[1])
              IN  IF HasNonce(currentLocations, location.nonce)
                  THEN /\ currentLocations' = currentLocations
                       /\ setup'[s].count = setup[s].count
                  ELSE /\ currentLocations' # <<>>
                       /\ currentLocations'[Len(currentLocations')] = location]_vars
    /\ [] NoDuplicates(currentLocations)

\* C19: the Trail Cache never holds more than its capacity; a record accepted
\* into a full cache pushes out the entry with the lowest sequence, so that
\* the cache keeps the highest sequences it was given
C19_CacheBounded ==
    /\ [](Len(currentLocations) <= MAX_TRAIL_LENGTH)
    /\ [][\A s \in Subs :
            (onData(s) /\ setup'[s].count > setup[s].count
                       /\ Len(currentLocations) = MAX_TRAIL_LENGTH) =>
              /\ \A k \in 1..Len(currentLocations) :
                    currentLocations[1].nonce <= currentLocations[k].nonce
              /\ currentLocations' =
                    Append(Tail(currentLocations),
                           decodeISSLocation(Head(chan[s]).simulationResults[1]))]_vars

\* C20: a cache loaded with the catch-up range a..b that then accepts the
\* pushes c..d (a <= c <= b+1 <= d+1) holds the sequences a..d, each once:
\* it is a gapless ascending run at every point, its first entry stays, and
\* once the last push is handled its last entry is d
C20_OverlapYieldsEachOnce ==
    /\ [](/\ currentLocations # <<>>
          /\ \A i \in 1..Len(currentLocations) :
                currentLocations[i].nonce = currentLocations[1].nonce + (i - 1))
    /\ [](chan[1] = <<>> =>
             currentLocations[Len(currentLocations)].nonce = Len(records) - 1)
    /\ [][currentLocations'[1] = currentLocations[1]]_vars

\* the overlap has happened: every push is handled, some were in the cache
\* already and were dropped, the others were appended
C20_Witness ==
    /\ chan[1] = <<>>
    /\ setup[1].count > 0
    /\ setup[1].count < Len(records) - setup[1].since
    /\ Len(currentLocations) > setup[1].count + 1

\* the records of a cache
Entries(locations) == {locations[i] : i \in 1..Len(locations)}

\* C21: a step takes a record out of the trail cache only by capacity
\* eviction: the cache it leaves is full and every record taken out is older
\* (lower sequence) than every record kept
C21_ShrinksOnlyByEviction ==
    [][\A gone \in Entries(currentLocations) \ Entries(currentLocations') :
          /\ Len(currentLocations') >= MAX_TRAIL_LENGTH
          /\ \A kept \in Entries(currentLocations) \cap Entries(currentLocations') :
                gone.nonce < kept.nonce]_vars

\* C22: when a catch-up started by an error or by the tab becoming visible
\* brings records back, the cache is from then on what was fetched and
\* nothing else: every entry is a record of the range read from the ledger
\* (the last HistoryWindow records of the count), and with every read
\* through it is that range; a fetch that brought nothing leaves the cache
C22_ReplacedWholesale ==
    [][\A f \in Fetches :
          (/\ fetchInitialLocations(f)
           /\ fetch[f].purpose \in {"error", "visible"}
           /\ fetch'[f].pc = "done"
           /\ currentLocations' # currentLocations) =>
             /\ \E failed \in SUBSET (StartIndex(fetch[f].total)..(fetch[f].total - 1)) :
                   currentLocations' = FetchedLocations(fetch[f].total, failed)
             /\ Entries(currentLocations') \subseteq
                   Entries(FetchedLocations(fetch[f].total, {}))]_vars

\* a subscription that had pushed records into the cache is gone, the
\* catch-up that followed is through, and the cache is the window of the
\* ledger, which has left the oldest record behind
C22_Witness ==
    /\ variant = "full"
    /\ \E s \in Subs : setup[s].pc \in {"errored", "dropped"} /\ setup[s].count > 0
    /\ fetch[MaxFetches].pc = "done"
    /\ \A f \in Fetches : fetch[f].pc \in {"none", "done"}
    /\ Len(records) > HistoryWindow
    /\ currentLocations = FetchedLocations(Len(records), {})

\* C23: in every state the trail cache is in strictly increasing order of
\* sequence number
C23_CacheOrdered ==
    \A i \in 1..(Len(currentLocations) - 1) :
        currentLocations[i].nonce < currentLocations[i + 1].nonce

\* the records with the indexes from to upto - 1 of the ledger, decoded, in
\* index order
RECURSIVE InIndexOrder(_, _)
InIndexOrder(from, upto) ==
    IF from >= upto THEN <<>>
    ELSE <<decodeISSLocation(records[from + 1].data)>> \o InIndexOrder(from + 1, upto)

\* C24: a history fetch that has read the count and whose reads all succeed
\* returns every record with an index from max(0, count - HistoryWindow) to
\* count - 1, in index order
C24_FetchReturnsWindow ==
    \A f \in Fetches :
        fetch[f].pc = "read" =>
            FetchedLocations(fetch[f].total, {}) =
                InIndexOrder(IF fetch[f].total - HistoryWindow > 0
                             THEN fetch[f].total - HistoryWindow ELSE 0,
                             fetch[f].total)

\* ------------------------------------------ the claims on the manual trigger

\* C25: a run of the trigger that succeeded reports the sequence that was
\* assigned to the record it appended, and the key of that record
C25_ReportsAssignedSequence ==
    (trigger.pc = "exited" /\ trigger.printed = "Oracle Success!") =>
        /\ trigger.nonce = trigger.assigned
        /\ KeyIndex(toHex(trigger.timestamp, 32)) # 0

\* C26: a run of the trigger ends with exit code 0 only when its record was
\* appended, and with a non-zero exit code and an error message after every
\* failure (count query, feed, encoding, append, the request itself)
C26_ExitCodeTellsOutcome ==
    trigger.pc = "exited" =>
        IF trigger.printed = "Oracle Success!"
        THEN trigger.exit = 0 /\ cyc[trigger.cycle].result = "ok"
        ELSE trigger.exit > 0 /\ trigger.message # "none"

\* C27: a cycle of the oracle service that has issued its append is not cut
\* off by a termination signal: the process does not exit between the start
\* of setAndEmitEvents and its return
C27_AppendSurvivesSignal ==
    [][\A c \in Cycles :
          (cyc[c].kind = "oracle" /\ cyc[c].pc = "publish") =>
              cyc'[c].pc # "killed"]_vars

\* ------------------------------------------------- the claims on the codec

\* C28: decoding the encoding of a field tuple gives the tuple back: for the
\* observation and the sequence a cycle is about to publish,
\* decodeISSLocation(encodeISSLocation(issData, nonce)) has their timestamp,
\* latitude and sequence
C28_CodecRoundTrip ==
    \A c \in Cycles :
        cyc[c].pc = "publish" =>
            LET issData == [timestamp |-> cyc[c].timestamp,
                            latitude |-> cyc[c].latitude]
            IN  decodeISSLocation(encodeISSLocation(issData, cyc[c].nonce)) =
                    [timestamp |-> issData.timestamp,
                     latitude |-> issData.latitude,
                     nonce |-> cyc[c].nonce]

\* C29: a bundled result whose length is not the record size is not decoded:
\* onData adds nothing to the trail cache and hands nothing to onNewLocation
C29_WrongLengthRejected ==
    [][\A s \in Subs :
          (/\ onData(s)
           /\ Head(chan[s]).simulationResults # <<>>
           /\ Head(chan[s]).simulationResults[1].size # RecordSize) =>
              /\ currentLocations' = currentLocations
              /\ setup'[s].count = setup[s].count]_vars

\* ----------------------------------------------- the claims on the values

\* C30: every record of the ledger has its latitude within -90 and 90
\* degrees, in micro-degrees, whatever the feed reported
C30_LatitudeInRange ==
    \A i \in 1..Len(records) :
        /\ records[i].data.latitude >= -(90 * MicroDegrees)
        /\ records[i].data.latitude <= 90 * MicroDegrees

\* ------------------------------------------- the claims on the connection

\* the setupSubscription() calls that are under way, and the subscriptions
\* that are live
Subscribing == {s \in Subs : setup[s].pc \in {"info", "subscribe"}}
LiveSubs == {s \in Subs : Live(s)}

\* C31: a hook has at most one subscription, live or being made, at any time,
\* and the handle it keeps for its cleanup is the live one
C31_OneSubscription ==
    /\ Cardinality(Subscribing \cup LiveSubs) <= 1
    /\ \A s \in LiveSubs : subscription = s

\* C32: once the cleanup has run the hook has no live subscription and gets
\* none: no setupSubscription() call is made or completed, and nothing
\* changes the trail cache
C32_QuietAfterCleanup ==
    /\ [](~mounted => LiveSubs = {})
    /\ [][~mounted => /\ nextSetup' = nextSetup
                      /\ currentLocations' = currentLocations]_vars

\* C33: a record that the subscription's onData appended to the trail cache
\* while a catch-up fetch was under way (its sequence is not below the count
\* the fetch read, so it was published after that) is still in the cache
\* once the result of the fetch has been applied
C33_PushSurvivesCatchUp ==
    [][\A f \in Fetches :
          (/\ FetchRead(f)
           /\ fetch[f].purpose \in {"error", "visible"}) =>
             \A l \in Entries(currentLocations) :
                 (/\ l.nonce >= fetch[f].total
                  /\ \E s \in Subs : setup[s].count > 0 /\ setup[s].last = l.nonce)
                    => l \in Entries(currentLocations')]_vars

\* ------------------------------------------------ the claim on the endpoint
\* C34: a request that reaches the route without the bearer token starts no
\* publish cycle and is answered with status 401
C34_TokenRequired ==
    (trigger.authorization = "none" /\ trigger.cycle # 0) =>
        /\ cyc[trigger.cycle].result = "unauthorized"
        /\ trigger.pc # "waiting"
        /\ trigger.status = 401

\* ------------------------------------------------- the claims on the start
\* the full hook's 100 ms timeout has fired and the history fetch it started
\* has settled
InitialFetchDone ==
    ~initTimer /\ \A f \in Fetches : fetch[f].purpose # "init"

\* C35: the full hook calls setupSubscription() for the first time only after
\* its initial history fetch has settled, so no push is accepted before the
\* trail cache has been set from that fetch
C35_HistoryBeforeSubscribe ==
    variant = "full" =>
        /\ (\E s \in Subs : setup[s].pc # "none") => InitialFetchDone
        /\ (\E s \in Subs : setup[s].count > 0) => InitialFetchDone

====
